---- MODULE Spec2Model ----
(***************************************************************************)
(* GrainPlayer (Tone/source/buffer/GrainPlayer.ts): the grain scheduler.  *)
(*                                                                         *)
(* The player owns a Clock whose tick callback is _tick; every tick       *)
(* spawns one ToneBufferSource (a grain) and pushes it on _activeSources; *)
(* the grain's onended callback removes it again.  Times, offsets, rates  *)
(* and frequencies are exact rationals <<numerator, denominator>>.        *)
(*                                                                         *)
(* Source (the base class), Clock and ToneBufferSource are not part of    *)
(* the files at hand; the few things the player needs of them are         *)
(* modelled from the design document and marked as such.                   *)
(***************************************************************************)
EXTENDS Integers, Sequences, FiniteSets, TLC

(***************************************************************************)
(* Exact rational arithmetic: <<n, d>> with d > 0, in lowest terms.        *)
(***************************************************************************)
Abs(n) == IF n < 0 THEN -n ELSE n

RECURSIVE GCD(_, _)
GCD(a, b) == IF b = 0 THEN a ELSE GCD(b, a % b)

Rat(n, d) ==
    LET g == GCD(Abs(n), Abs(d))
        s == IF d < 0 THEN -1 ELSE 1
    IN  <<(s * n) \div g, (s * d) \div g>>

Zero == Rat(0, 1)
One == Rat(1, 1)

RAdd(a, b) == Rat(a[1] * b[2] + b[1] * a[2], a[2] * b[2])
RMul(a, b) == Rat(a[1] * b[1], a[2] * b[2])
RDiv(a, b) == Rat(a[1] * b[2], a[2] * b[1])
RLt(a, b) == a[1] * b[2] < b[1] * a[2]
RLe(a, b) == a[1] * b[2] <= b[1] * a[2]
RMax(a, b) == IF RLt(a, b) THEN b ELSE a

\* "no time": an argument that was not given, a stop that is not scheduled
None == <<0, 0>>

(***************************************************************************)
(* Bounds of the model.                                                    *)
(***************************************************************************)
\* grains spawned since construction
MaxSpawn == 2
\* setter calls in a behaviour of SpecParams
MaxSets == 2
\* the grains the scenario of one play through a 2 s buffer may spawn
ScenarioGrains == 12

(***************************************************************************)
(* The values the operations are called with.                              *)
(***************************************************************************)
RateInputs == {Rat(1, 2000), Rat(1, 1000), Rat(2, 1)}
SizeInputs == {Rat(1, 10), Rat(1, 5)}
OverlapInputs == {Rat(0, 1), Rat(1, 10)}
DetuneInputs == {0 - 1200, 1200}
LoopPointInputs == {Rat(1, 10)}
OffsetInputs == {Rat(0, 1), Rat(1, 5)}
DurationInputs == {None, Rat(3, 10)}
BufferDurations == {Rat(0, 1), Rat(1, 5)}
TimedDurations == {None, Rat(0, 1), Rat(3, 10)}

(***************************************************************************)
(* State.                                                                  *)
(*   GrainPlayer fields: _playbackRate, _grainSize, _overlap, detune,     *)
(*     loop, _loopStart, _loopEnd, _activeSources (the grains, in push    *)
(*     order); bufferDuration is this.buffer.duration.                     *)
(*   Source: state, the playback state at the current time.               *)
(*   Clock: clockState, clockTicks (the tick index of the next tick),     *)
(*     frequency, nextTickTime, stopAt (the time of a stop scheduled in   *)
(*     the future, or None).                                               *)
(*   spawned: the number of grains created so far; a grain's id is its    *)
(*     number, which stands for the identity of the object.               *)
(*   now: the current time.                                                *)
(*   lastOp, thrown, calls: the operation that ran last, the error it     *)
(*     threw ("" for none) and, in order, the calls it made to the        *)
(*     grains and to the onstop callback.                                  *)
(*   budget: the setter calls left to the behaviour, or Unlimited.        *)
(***************************************************************************)
VARIABLES state, _playbackRate, _grainSize, _overlap, detune, loop,
          _loopStart, _loopEnd, _activeSources, bufferDuration,
          clockState, clockTicks, frequency, nextTickTime, stopAt,
          spawned, disposed, now, lastOp, thrown, calls, budget

Unlimited == 0 - 1

vars == <<state, _playbackRate, _grainSize, _overlap, detune, loop,
          _loopStart, _loopEnd, _activeSources, bufferDuration,
          clockState, clockTicks, frequency, nextTickTime, stopAt,
          spawned, disposed, now, lastOp, thrown, calls, budget>>

\* the whole state as one record, so that operations compose as in the code
Cur ==
    [state |-> state, _playbackRate |-> _playbackRate, _grainSize |-> _grainSize,
     _overlap |-> _overlap, detune |-> detune, loop |-> loop,
     _loopStart |-> _loopStart, _loopEnd |-> _loopEnd,
     _activeSources |-> _activeSources, bufferDuration |-> bufferDuration,
     clockState |-> clockState, clockTicks |-> clockTicks, frequency |-> frequency,
     nextTickTime |-> nextTickTime, stopAt |-> stopAt, spawned |-> spawned,
     disposed |-> disposed,
     now |-> now, lastOp |-> lastOp, thrown |-> thrown, calls |-> calls,
     budget |-> budget]

Becomes(p) ==
    /\ state' = p.state
    /\ _playbackRate' = p._playbackRate
    /\ _grainSize' = p._grainSize
    /\ _overlap' = p._overlap
    /\ detune' = p.detune
    /\ loop' = p.loop
    /\ _loopStart' = p._loopStart
    /\ _loopEnd' = p._loopEnd
    /\ _activeSources' = p._activeSources
    /\ bufferDuration' = p.bufferDuration
    /\ clockState' = p.clockState
    /\ clockTicks' = p.clockTicks
    /\ frequency' = p.frequency
    /\ nextTickTime' = p.nextTickTime
    /\ stopAt' = p.stopAt
    /\ spawned' = p.spawned
    /\ disposed' = p.disposed
    /\ now' = p.now
    /\ lastOp' = p.lastOp
    /\ thrown' = p.thrown
    /\ calls' = p.calls
    /\ budget' = p.budget

\* the state an operation starts from
Called(op) == [Cur EXCEPT !.lastOp = op, !.thrown = "", !.calls = <<>>]

\* the state a setter starts from, when the behaviour can afford the call
Affordable == budget # 0
Set(op) == [Called(op) EXCEPT !.budget = IF @ > 0 THEN @ - 1 ELSE @]

(***************************************************************************)
(* Helpers of the language and of the libraries.                           *)
(***************************************************************************)
\* Array.prototype.indexOf of the object with identity id: the 0-based
\* position of its first occurrence, or -1
indexOf(seq, id) ==
    IF \E i \in 1..Len(seq) : seq[i].id = id
    THEN (CHOOSE i \in 1..Len(seq) :
            seq[i].id = id /\ \A j \in 1..(i - 1) : seq[j].id # id) - 1
    ELSE -1

\* Array.prototype.splice(index, 1) with a 0-based index
splice(seq, index) ==
    [i \in 1..(Len(seq) - 1) |-> IF i <= index THEN seq[i] ELSE seq[i + 1]]

\* defaultArg(given, fallback)
defaultArg(given, fallback) == IF given = None THEN fallback ELSE given

RECURSIVE Pow2(_)
Pow2(k) == IF k = 0 THEN One
           ELSE IF k > 0 THEN RMul(Rat(2, 1), Pow2(k - 1))
           ELSE RMul(Rat(1, 2), Pow2(k + 1))

\* intervalToFrequencyRatio(interval) = 2 ^ (interval / 12); the model calls it
\* with whole octaves only, where the ratio is rational
intervalToFrequencyRatio(interval) == Pow2(interval \div 12)

\* the lower bound of the playback rate
MinPlaybackRate == Rat(1, 1000)

\* assertRange(value, gte): a RangeError unless gte <= value
assertRangeFails(value, gte) == ~RLe(gte, value)


(***************************************************************************)
(* ToneBufferSource: one grain.  fadeIn .. playbackRate are the options    *)
(* it is created with, startTime and startOffset the arguments of its      *)
(* start, stopTime the time of its latest stop call.  spawn keeps _tick's  *)
(* locals at the time the grain was created.                               *)
(***************************************************************************)
NewSource(id, opts, time, offset, stopTime, locals) ==
    [id |-> id,
     fadeIn |-> opts.fadeIn, fadeOut |-> opts.fadeOut, loop |-> opts.loop,
     loopStart |-> opts.loopStart, loopEnd |-> opts.loopEnd,
     playbackRate |-> opts.playbackRate,
     startTime |-> time, startOffset |-> offset, stopTime |-> stopTime,
     spawn |-> locals]

(***************************************************************************)
(* _onstop(time): invoked when the clock is stopped.                       *)
(***************************************************************************)
\* the body of the forEach: source.fadeOut = 0; source.stop(time)
\* a forEach body that stops the grain and leaves its fade-out alone
StopSource_keepFadeOut(p, i, time) ==
    [p EXCEPT !._activeSources[i].stopTime = time,
              !.calls = Append(@, <<"source.stop", p._activeSources[i].id, time>>)]

StopSource(p, i, time) ==
    [p EXCEPT !._activeSources[i].fadeOut = Zero,
              !._activeSources[i].stopTime = time,
              !.calls = Append(@, <<"source.stop", p._activeSources[i].id, time>>)]

\* _activeSources.forEach, from position i on
RECURSIVE forEachStop(_, _, _)
forEachStop(p, i, time) ==
    IF i > Len(p._activeSources) THEN p
    ELSE forEachStop(StopSource(p, i, time), i + 1, time)

\* a handler that also empties the list
_onstop_clearing(p, time) ==
    LET q == forEachStop(p, 1, time)
    IN  [q EXCEPT !.calls = Append(@, <<"onstop">>), !._activeSources = <<>>]

_onstop(p, time) ==
    LET q == forEachStop(p, 1, time)
    IN  [q EXCEPT !.calls = Append(@, <<"onstop">>)]

(***************************************************************************)
(* The Clock.  stop(time) halts it at time: at once, emitting "stop" to    *)
(* the handler registered in the constructor (_onstop), when time is not   *)
(* in the future, and else when the time comes (ScheduledStop).  A stop    *)
(* replaces a stop scheduled before; a halted clock has no next tick and   *)
(* its tick count is back at 0.                                            *)
(***************************************************************************)
ClockStop(p, time) ==
    IF RLe(time, p.now)
    THEN _onstop([p EXCEPT !.clockState = "stopped", !.stopAt = None,
                           !.clockTicks = Zero, !.nextTickTime = None], time)
    ELSE [p EXCEPT !.stopAt = time]

ClockStart(p, time, ticks) ==
    [p EXCEPT !.clockState = "started", !.clockTicks = ticks, !.nextTickTime = time]

\* frequency.setValueAtTime(value, this.now())
ClockSetFrequency(p, value) == [p EXCEPT !.frequency = value]

\* after a tick's callback: the next tick is one period later
ClockAdvance(p, time) ==
    IF p.clockState = "started"
    THEN [p EXCEPT !.clockTicks = RAdd(@, One),
                   !.nextTickTime = RAdd(time, RDiv(One, p.frequency))]
    ELSE p

(***************************************************************************)
(* _stop, Source.stop, _start, Source.start, restart.                      *)
(***************************************************************************)
_stop(p, time) == ClockStop(p, time)

\* Source.stop(time): from started only; the state changes at time
stop(p, time) ==
    IF p.state = "started"
    THEN LET q == _stop(p, time)
         IN  IF RLe(time, p.now) THEN [q EXCEPT !.state = "stopped"] ELSE q
    ELSE p

_start(p, time, offset, duration) ==
    LET off == defaultArg(offset, Zero)
        grainSize == RDiv(One, p.frequency)
        q == ClockStart(p, time, RDiv(off, grainSize))
    IN  IF duration # None /\ duration # Zero
        THEN stop(q, RAdd(time, duration))
        ELSE q

\* Source.start(time, offset, duration): from stopped only
start(p, time, offset, duration) ==
    IF p.state = "stopped"
    THEN _start([p EXCEPT !.state = "started"], time, offset, duration)
    ELSE p

\* a restart that does not halt first
restart_noStop(p, time, offset, duration) ==
    IF p.state = "started"
    THEN _start(p, time, offset, duration)
    ELSE p

\* a restart that does not look at the state
restart_unguarded(p, time, offset, duration) ==
    _start(_stop(p, time), time, offset, duration)

restart(p, time, offset, duration) ==
    IF p.state = "started"
    THEN _start(_stop(p, time), time, offset, duration)
    ELSE p

(***************************************************************************)
(* _tick(time): invoked on each clock tick.                                *)
(***************************************************************************)
\* a callback that removes the oldest grain of the list
onended_removesOldest(p, id) ==
    IF p._activeSources # <<>>
    THEN [p EXCEPT !._activeSources = splice(@, 0),
                   !.calls = Append(@, <<"splice", 0>>)]
    ELSE p

\* a callback that never finds its grain in the list
onended_neverFound(p, id) == p

\* a callback that splices whatever indexOf returns: splice(-1, 1) removes
\* the last grain of the list
onended_unguarded(p, id) ==
    LET index == indexOf(p._activeSources, id)
    IN  [p EXCEPT !._activeSources =
                      IF index # -1 THEN splice(@, index)
                      ELSE IF @ = <<>> THEN @
                      ELSE SubSeq(@, 1, Len(@) - 1),
                  !.calls = Append(@, <<"splice", index>>)]

\* source.onended of the grain id
onended(p, id) ==
    LET index == indexOf(p._activeSources, id)
    IN  IF index # -1
        THEN [p EXCEPT !._activeSources = splice(@, index),
                       !.calls = Append(@, <<"splice", index>>)]
        ELSE p

\* a handler that stops at the end of the buffer, not past it
_tick_stopAtEnd(p, time) ==
    LET ticks == p.clockTicks
        grainSize == RDiv(One, p.frequency)
        offset == RMul(ticks, grainSize)
    IN  IF ~p.loop /\ RLe(p.bufferDuration, offset)
        THEN stop(p, time)
        ELSE LET fadeIn == IF RLt(offset, p._overlap) THEN Zero ELSE p._overlap
                 opts == [fadeIn |-> fadeIn, fadeOut |-> p._overlap, loop |-> p.loop,
                          loopStart |-> p._loopStart, loopEnd |-> p._loopEnd,
                          playbackRate |-> intervalToFrequencyRatio(p.detune \div 100)]
                 id == p.spawned + 1
                 source == NewSource(id, opts, time, RMul(p._grainSize, ticks),
                                     RAdd(time, RDiv(p._grainSize, p._playbackRate)),
                                     [ticks |-> ticks, offset |-> offset,
                                      overlap |-> p._overlap])
             IN  [p EXCEPT !.spawned = id,
                           !._activeSources = Append(@, source),
                           !.calls = Append(@, <<"source.start", id, time>>)]

\* a handler that scales the grain's multiplier by the playback rate
_tick_rateInMultiplier(p, time) ==
    LET ticks == p.clockTicks
        grainSize == RDiv(One, p.frequency)
        offset == RMul(ticks, grainSize)
    IN  IF ~p.loop /\ RLt(p.bufferDuration, offset)
        THEN stop(p, time)
        ELSE LET fadeIn == IF RLt(offset, p._overlap) THEN Zero ELSE p._overlap
                 opts == [fadeIn |-> fadeIn, fadeOut |-> p._overlap, loop |-> p.loop,
                          loopStart |-> p._loopStart, loopEnd |-> p._loopEnd,
                          playbackRate |->
                              RMul(p._playbackRate,
                                   intervalToFrequencyRatio(p.detune \div 100))]
                 id == p.spawned + 1
                 source == NewSource(id, opts, time, RMul(p._grainSize, ticks),
                                     RAdd(time, RDiv(p._grainSize, p._playbackRate)),
                                     [ticks |-> ticks, offset |-> offset,
                                      overlap |-> p._overlap])
             IN  [p EXCEPT !.spawned = id,
                           !._activeSources = Append(@, source),
                           !.calls = Append(@, <<"source.start", id, time>>)]

\* a handler that stops the grain one grain size after its start
_tick_stopAfterGrainSize(p, time) ==
    LET ticks == p.clockTicks
        grainSize == RDiv(One, p.frequency)
        offset == RMul(ticks, grainSize)
    IN  IF ~p.loop /\ RLt(p.bufferDuration, offset)
        THEN stop(p, time)
        ELSE LET fadeIn == IF RLt(offset, p._overlap) THEN Zero ELSE p._overlap
                 opts == [fadeIn |-> fadeIn, fadeOut |-> p._overlap, loop |-> p.loop,
                          loopStart |-> p._loopStart, loopEnd |-> p._loopEnd,
                          playbackRate |-> intervalToFrequencyRatio(p.detune \div 100)]
                 id == p.spawned + 1
                 source == NewSource(id, opts, time, RMul(p._grainSize, ticks),
                                     RAdd(time, p._grainSize),
                                     [ticks |-> ticks, offset |-> offset,
                                      overlap |-> p._overlap])
             IN  [p EXCEPT !.spawned = id,
                           !._activeSources = Append(@, source),
                           !.calls = Append(@, <<"source.start", id, time>>)]

\* a handler whose end-of-buffer branch does not return
_tick_noReturn(q, time) ==
    LET ticks == q.clockTicks
        grainSize == RDiv(One, q.frequency)
        offset == RMul(ticks, grainSize)
        p == IF ~q.loop /\ RLt(q.bufferDuration, offset) THEN stop(q, time) ELSE q
        fadeIn == IF RLt(offset, p._overlap) THEN Zero ELSE p._overlap
        opts == [fadeIn |-> fadeIn, fadeOut |-> p._overlap, loop |-> p.loop,
                 loopStart |-> p._loopStart, loopEnd |-> p._loopEnd,
                 playbackRate |-> intervalToFrequencyRatio(p.detune \div 100)]
        id == p.spawned + 1
        source == NewSource(id, opts, time, RMul(p._grainSize, ticks),
                            RAdd(time, RDiv(p._grainSize, p._playbackRate)),
                            [ticks |-> ticks, offset |-> offset,
                             overlap |-> p._overlap])
    IN  [p EXCEPT !.spawned = id,
                  !._activeSources = Append(@, source),
                  !.calls = Append(@, <<"source.start", id, time>>)]

_tick(p, time) ==
    LET ticks == p.clockTicks
        grainSize == RDiv(One, p.frequency)
        offset == RMul(ticks, grainSize)
    IN  IF ~p.loop /\ RLt(p.bufferDuration, offset)
        THEN stop(p, time)
        ELSE LET fadeIn == IF RLt(offset, p._overlap) THEN Zero ELSE p._overlap
                 opts == [fadeIn |-> fadeIn, fadeOut |-> p._overlap, loop |-> p.loop,
                          loopStart |-> p._loopStart, loopEnd |-> p._loopEnd,
                          playbackRate |-> intervalToFrequencyRatio(p.detune \div 100)]
                 id == p.spawned + 1
                 source == NewSource(id, opts, time, RMul(p._grainSize, ticks),
                                     RAdd(time, RDiv(p._grainSize, p._playbackRate)),
                                     [ticks |-> ticks, offset |-> offset,
                                      overlap |-> p._overlap])
             IN  [p EXCEPT !.spawned = id,
                           !._activeSources = Append(@, source),
                           !.calls = Append(@, <<"source.start", id, time>>)]

(***************************************************************************)
(* dispose(): what is disposed is kept in disposed, the player as          *)
(* <<"player">>, the buffer as <<"buffer">>, the clock as <<"clock">> and  *)
(* the grain id as <<"source", id>>.                                       *)
(***************************************************************************)
\* Source.dispose()
SourceDispose(p) ==
    [p EXCEPT !.disposed = @ \cup {<<"player">>},
              !.calls = Append(@, <<"super.dispose">>)]

\* ToneAudioBuffer.dispose()
BufferDispose(p) ==
    [p EXCEPT !.disposed = @ \cup {<<"buffer">>},
              !.calls = Append(@, <<"buffer.dispose">>)]

\* Clock.dispose(): the clock is halted, without a stop event, and runs no
\* callback any more
ClockDispose(p) ==
    [p EXCEPT !.clockState = "stopped", !.clockTicks = Zero,
              !.nextTickTime = None, !.stopAt = None,
              !.disposed = @ \cup {<<"clock">>},
              !.calls = Append(@, <<"clock.dispose">>)]

\* ToneBufferSource.dispose() of the grain at position i: its onended is
\* not delivered any more
DisposeSource(p, i) ==
    [p EXCEPT !.disposed = @ \cup {<<"source", p._activeSources[i].id>>},
              !.calls = Append(@, <<"source.dispose", p._activeSources[i].id>>)]

\* _activeSources.forEach, from position i on
RECURSIVE forEachDispose(_, _)
forEachDispose(p, i) ==
    IF i > Len(p._activeSources) THEN p
    ELSE forEachDispose(DisposeSource(p, i), i + 1)

\* a dispose that leaves the grains alone
dispose_leavingSources(p) == ClockDispose(BufferDispose(SourceDispose(p)))

dispose(p) == forEachDispose(ClockDispose(BufferDispose(SourceDispose(p))), 1)

(***************************************************************************)
(* The setters.                                                            *)
(***************************************************************************)
\* a setter that forgets the playback rate, as the constructor's clock does
set_grainSize_noRate(p, size) ==
    LET q == [p EXCEPT !._grainSize = size]
    IN  ClockSetFrequency(q, RDiv(One, q._grainSize))

set_grainSize(p, size) ==
    LET q == [p EXCEPT !._grainSize = size]
    IN  ClockSetFrequency(q, RDiv(q._playbackRate, q._grainSize))

\* a setter that stores the rate before it checks it
set_playbackRate_storeFirst(p, rate) ==
    LET q == [p EXCEPT !._playbackRate = rate]
    IN  IF assertRangeFails(rate, MinPlaybackRate)
        THEN [q EXCEPT !.thrown = "RangeError"]
        ELSE set_grainSize(q, q._grainSize)

set_playbackRate(p, rate) ==
    IF assertRangeFails(rate, MinPlaybackRate)
    THEN [p EXCEPT !.thrown = "RangeError"]
    ELSE set_grainSize([p EXCEPT !._playbackRate = rate], p._grainSize)

\* a setter that also rewrites the fade-out of the grains in the list
set_overlap_retroactive(p, time) ==
    [p EXCEPT !._overlap = time,
              !._activeSources = [i \in 1..Len(@) |-> [@[i] EXCEPT !.fadeOut = time]]]

set_overlap(p, time) == [p EXCEPT !._overlap = time]

set_loopStart(p, time) == [p EXCEPT !._loopStart = time]

set_loopEnd(p, time) == [p EXCEPT !._loopEnd = time]

set_detune(p, cents) == [p EXCEPT !.detune = cents]

set_loop(p, flag) == [p EXCEPT !.loop = flag]


(***************************************************************************)
(* The state after construction: the default options, but for the grain   *)
(* size, and a buffer of the given duration (0 while it is not loaded).    *)
(***************************************************************************)
Constructed(grainSize, duration, setterCalls) ==
    /\ state = "stopped"
    /\ _playbackRate = Rat(1, 1)
    /\ _grainSize = grainSize
    /\ _overlap = Rat(1, 10)
    /\ detune = 0
    /\ loop = FALSE
    /\ _loopStart = Zero
    /\ _loopEnd = Zero
    /\ _activeSources = <<>>
    /\ bufferDuration = duration
    /\ clockState = "stopped"
    /\ clockTicks = Zero
    /\ frequency = RDiv(Rat(1, 1), grainSize)
    /\ nextTickTime = None
    /\ stopAt = None
    /\ spawned = 0
    /\ disposed = {}
    /\ now = Zero
    /\ lastOp = <<"constructor">>
    /\ thrown = ""
    /\ calls = <<>>
    /\ budget = setterCalls

Init ==
    \E duration \in BufferDurations :
        Constructed(Rat(1, 5), duration, Unlimited)

(***************************************************************************)
(* The operations, each called at the current time.                        *)
(***************************************************************************)
Start(offset, duration) ==
    Becomes(start(Called(<<"start", offset, duration>>), now, offset, duration))

Stop == Becomes(stop(Called(<<"stop">>), now))

Restart(offset, duration) ==
    Becomes(restart(Called(<<"restart", offset, duration>>), now, offset, duration))

SetPlaybackRate(rate) == Affordable /\ Becomes(set_playbackRate(Set(<<"playbackRate", rate>>), rate))

SetGrainSize(size) == Affordable /\ Becomes(set_grainSize(Set(<<"grainSize", size>>), size))

SetOverlap(time) == Affordable /\ Becomes(set_overlap(Set(<<"overlap", time>>), time))

SetLoopStart(time) == Affordable /\ Becomes(set_loopStart(Set(<<"loopStart", time>>), time))

SetLoopEnd(time) == Affordable /\ Becomes(set_loopEnd(Set(<<"loopEnd", time>>), time))

SetDetune(cents) == Affordable /\ Becomes(set_detune(Set(<<"detune", cents>>), cents))

SetLoop(flag) == Affordable /\ Becomes(set_loop(Set(<<"loop", flag>>), flag))

Dispose == Becomes(dispose(Called(<<"dispose">>)))

(***************************************************************************)
(* The events.                                                             *)
(***************************************************************************)
\* the clock's next tick: it fires unless the clock is halted before it
TickUpTo(limit) ==
    /\ <<"clock">> \notin disposed
    /\ clockState = "started"
    /\ stopAt = None \/ RLt(nextTickTime, stopAt)
    /\ LET time == nextTickTime
           p == _tick([Called(<<"tick">>) EXCEPT !.now = time], time)
       IN  /\ p.spawned <= limit
           /\ Becomes(ClockAdvance(p, time))

Tick == TickUpTo(MaxSpawn)

\* the stop that _start scheduled comes due
ScheduledStop ==
    /\ <<"clock">> \notin disposed
    /\ clockState = "started"
    /\ stopAt # None
    /\ RLe(stopAt, nextTickTime)
    /\ Becomes(stop([Called(<<"scheduledStop">>) EXCEPT !.now = stopAt], stopAt))

\* a grain's completion notification: at or after its stop time for a grain
\* still in the list, and possibly once more for a grain that has left it
GrainEnded(id) ==
    /\ id \in 1..spawned
    /\ <<"source", id>> \notin disposed
    /\ LET index == indexOf(_activeSources, id)
           time == IF index = -1 THEN now
                   ELSE RMax(now, _activeSources[index + 1].stopTime)
       IN  /\ clockState = "started" => RLe(time, nextTickTime)
           /\ stopAt # None => RLe(time, stopAt)
           /\ Becomes(onended([Called(<<"onended", id>>) EXCEPT !.now = time], id))

(***************************************************************************)
(* Spec: starting, stopping and restarting, the clock and the grains.      *)
(***************************************************************************)
Next ==
    \/ \E offset \in OffsetInputs, duration \in DurationInputs : Start(offset, duration)
    \/ Stop
    \/ \E offset \in OffsetInputs, duration \in DurationInputs : Restart(offset, duration)
    \/ \E flag \in BOOLEAN : SetLoop(flag)
    \/ Tick
    \/ ScheduledStop
    \/ \E id \in 1..MaxSpawn : GrainEnded(id)

Spec == Init /\ [][Next]_vars

(***************************************************************************)
(* SpecParams: the setters, called while the player plays from the         *)
(* beginning of the buffer; a behaviour makes at most MaxSets setter calls.*)
(***************************************************************************)
InitParams == Constructed(Rat(1, 5), Rat(1, 5), MaxSets)

NextParams ==
    \/ Start(Zero, None)
    \/ \E rate \in RateInputs : SetPlaybackRate(rate)
    \/ \E size \in SizeInputs : SetGrainSize(size)
    \/ \E time \in OverlapInputs : SetOverlap(time)
    \/ \E time \in LoopPointInputs : SetLoopStart(time)
    \/ \E time \in LoopPointInputs : SetLoopEnd(time)
    \/ \E cents \in DetuneInputs : SetDetune(cents)
    \/ \E flag \in BOOLEAN : SetLoop(flag)
    \/ Tick
    \/ \E id \in 1..MaxSpawn : GrainEnded(id)

SpecParams == InitParams /\ [][NextParams]_vars

(***************************************************************************)
(* The properties.                                                         *)
(***************************************************************************)

\* C1: right after the playbackRate setter (called with a rate above 0.001)
\* or the grainSize setter returns, the setter has stored its argument without
\* an error and the clock's frequency is _playbackRate / _grainSize, with the
\* current value of the parameter that was not set; after any sequence of calls.
C1_FrequencyAfterSetter ==
    /\ lastOp[1] = "playbackRate" /\ RLt(MinPlaybackRate, lastOp[2])
         => thrown = "" /\ _playbackRate = lastOp[2]
    /\ lastOp[1] = "grainSize"
         => thrown = "" /\ _grainSize = lastOp[2]
    /\ lastOp[1] \in {"playbackRate", "grainSize"} /\ thrown = ""
         => frequency = RDiv(_playbackRate, _grainSize)

\* C1 witness: the rate was set to 2 after the grain size was set to 0.1
C1_Witness ==
    /\ lastOp = <<"playbackRate", Rat(2, 1)>>
    /\ thrown = ""
    /\ _grainSize = Rat(1, 10)
    /\ frequency = Rat(20, 1)

InitScenario == Constructed(Rat(1, 5), Rat(2, 1), Unlimited)

StartFresh == spawned = 0 /\ Start(Zero, None)

TickScenario == TickUpTo(ScenarioGrains)

OldestGrainEnded == _activeSources # <<>> /\ GrainEnded(_activeSources[1].id)

NextScenario ==
    \/ StartFresh
    \/ TickScenario
    \/ OldestGrainEnded

SpecScenario == InitScenario /\ [][NextScenario]_vars

(***************************************************************************)
(* What a step is, read from the state before it and the operation it ran. *)
(***************************************************************************)
\* the offset the next tick computes: tick index x 1 / tick frequency
TickOffset == RMul(clockTicks, RDiv(One, frequency))

\* the ids of a list of grains, in order
Ids(list) == [i \in 1..Len(list) |-> list[i].id]

\* the time at which the step halts the clock, or None when it does not:
\* stop or restart while started, the scheduled stop coming due, or a tick
\* past the end of a buffer that does not loop
HaltTime ==
    IF lastOp'[1] \in {"stop", "restart"} /\ state = "started" THEN now
    ELSE IF lastOp'[1] = "scheduledStop" THEN stopAt
    ELSE IF lastOp'[1] = "tick" /\ ~loop /\ RLt(bufferDuration, TickOffset)
         THEN nextTickTime
    ELSE None

\* the calls of a stop handler that runs at time over list
StopCalls(list, time) ==
    [i \in 1..Len(list) |-> <<"source.stop", list[i].id, time>>] \o << <<"onstop">> >>

\* C3: with loop disabled, the first tick whose computed offset exceeds the
\* buffer's duration stops the player and the clock at the tick's time, spawns
\* no grain and adds none to the list (the grains in it are stopped at that
\* time); and while the player is stopped no tick runs and no grain is spawned.
C3_SelfStopAtEnd ==
    /\ [][lastOp'[1] = "tick" /\ ~loop /\ RLt(bufferDuration, TickOffset)
            => /\ now' = nextTickTime
               /\ state' = "stopped"
               /\ clockState' = "stopped"
               /\ spawned' = spawned
               /\ Ids(_activeSources') = Ids(_activeSources)
               /\ \A i \in 1..Len(_activeSources') :
                     _activeSources'[i].stopTime = nextTickTime
               /\ calls'[Len(calls')] = <<"onstop">>]_vars
    /\ [][state = "stopped" => spawned' = spawned /\ lastOp'[1] # "tick"]_vars

\* C3 witness: a tick past the end has stopped the player with a grain in the list
C3_Witness ==
    /\ lastOp[1] = "tick"
    /\ state = "stopped"
    /\ ~loop
    /\ Len(_activeSources) >= 1
    /\ calls = StopCalls(_activeSources, now)

\* C4: when the clock halts at time t, the handler sets the fade-out of every
\* grain in the list to 0 and stops it at t, in list order, and then fires
\* onstop, once; no grain outside the list is called, and a step that does not
\* halt the clock stops no grain and fires no onstop.
C4_StopHandler ==
    [][IF HaltTime # None
       THEN /\ calls' = StopCalls(_activeSources, HaltTime)
            /\ Len(_activeSources') = Len(_activeSources)
            /\ \A i \in 1..Len(_activeSources) :
                  _activeSources'[i] = [_activeSources[i] EXCEPT !.fadeOut = Zero,
                                                                !.stopTime = HaltTime]
       ELSE \A i \in 1..Len(calls') : calls'[i][1] \notin {"source.stop", "onstop"}]_vars

\* C4 witness: stop ran with one of the two grains spawned still in the list
C4_Witness ==
    /\ lastOp[1] = "stop"
    /\ spawned = 2
    /\ Len(_activeSources) = 1
    /\ _activeSources[1].fadeOut = Zero
    /\ _activeSources[1].stopTime = now
    /\ calls = << <<"source.stop", _activeSources[1].id, now>>, <<"onstop">> >>

\* C5 as stated: the list is empty as soon as the stop handler has run.
C5_EmptyAfterStop == [][HaltTime # None => _activeSources' = <<>>]_vars

\* C5 as amended: when the stop handler has run the list still holds every
\* grain that was in it; a grain leaves the list in its completion
\* notification only.
C5_StillListedAfterStop ==
    /\ [][HaltTime # None => Ids(_activeSources') = Ids(_activeSources)]_vars
    /\ [][Len(_activeSources') < Len(_activeSources) => lastOp'[1] = "onended"]_vars

\* C5 witness: stop ran and both grains are still in the list, stopped
C5_Witness ==
    /\ lastOp[1] = "stop"
    /\ state = "stopped"
    /\ Len(_activeSources) = 2
    /\ \A i \in 1..2 : _activeSources[i].fadeOut = Zero
    /\ calls[3] = <<"onstop">>

C7_RestartWhenStopped ==
    [][lastOp'[1] = "restart" /\ state # "started"
         => /\ calls' = <<>>
            /\ UNCHANGED <<state, clockState, clockTicks, frequency, nextTickTime,
                           stopAt, _activeSources, spawned, now, _playbackRate,
                           _grainSize, _overlap, detune, loop, _loopStart,
                           _loopEnd, bufferDuration>>]_vars

\* C7 witness: restart ran on a stopped player whose list still holds a grain
C7_Witness ==
    /\ lastOp[1] = "restart"
    /\ state = "stopped"
    /\ clockState = "stopped"
    /\ Len(_activeSources) >= 1
    /\ calls = <<>>

C9_FadeByBufferOffset ==
    [][spawned' = spawned + 1
         => LET grain == _activeSources'[Len(_activeSources')]
            IN  /\ grain.startOffset = Zero => grain.fadeIn = Zero
                /\ RLe(_overlap, grain.startOffset) => grain.fadeIn = _overlap
                /\ grain.fadeOut = _overlap]_vars

\* the names the setters run under
SetterNames ==
    {"playbackRate", "grainSize", "overlap", "detune", "loop", "loopStart", "loopEnd"}

\* C10: a setter leaves the list and every grain in it as they were; a tick
\* that spawns gives the new grain the values current at that tick and leaves
\* the grains spawned before as they were.
C10_SettersLeaveGrains ==
    /\ [][lastOp'[1] \in SetterNames
            => _activeSources' = _activeSources /\ spawned' = spawned]_vars
    /\ [][spawned' = spawned + 1
            => LET n == Len(_activeSources')
                   grain == _activeSources'[n]
               IN  /\ SubSeq(_activeSources', 1, n - 1) = _activeSources
                   /\ grain.fadeOut = _overlap
                   /\ grain.fadeIn \in {Zero, _overlap}
                   /\ grain.loop = loop
                   /\ grain.loopStart = _loopStart
                   /\ grain.loopEnd = _loopEnd
                   /\ grain.playbackRate = intervalToFrequencyRatio(detune \div 100)
                   /\ grain.startTime = nextTickTime
                   /\ grain.startOffset = RMul(_grainSize, clockTicks)
                   /\ grain.stopTime =
                         RAdd(nextTickTime, RDiv(_grainSize, _playbackRate))]_vars

\* C10 witness: overlap was set between two ticks; the grain of the first tick
\* keeps its fade-out, the grain of the second has the new one
C10_Witness ==
    /\ lastOp[1] = "tick"
    /\ Len(_activeSources) = 2
    /\ _activeSources[1].fadeOut # _overlap
    /\ _activeSources[2].fadeOut = _overlap

(***************************************************************************)
(* SpecTimed: starting with and without a duration, the clock, the stop    *)
(* that start scheduled and the grains.                                    *)
(***************************************************************************)
InitTimed == Constructed(Rat(1, 5), Rat(1, 5), Unlimited)

NextTimed ==
    \/ \E offset \in OffsetInputs, duration \in TimedDurations : Start(offset, duration)
    \/ Tick
    \/ ScheduledStop
    \/ \E id \in 1..MaxSpawn : GrainEnded(id)

SpecTimed == InitTimed /\ [][NextTimed]_vars

\* C11: start(time, offset, duration) from stopped with a duration given
\* schedules a stop at time + duration (a stop that is due at once halts the
\* clock at once) and with none given schedules no stop; no tick runs at or
\* after the scheduled time, time does not pass it before the stop has run,
\* and the stop halts the clock at that time, spawns nothing and has the stop
\* handler stop the grains then in the list.
C11_DurationSchedulesStop ==
    /\ [][lastOp'[1] = "start" /\ state = "stopped"
            => LET duration == lastOp'[3]
               IN  IF duration = None
                   THEN stopAt' = None /\ clockState' = "started"
                   ELSE IF duration = Zero
                   THEN stopAt' = None /\ clockState' = "stopped"
                   ELSE stopAt' = RAdd(now, duration) /\ clockState' = "started"]_vars
    /\ [][lastOp'[1] = "tick" /\ stopAt # None => RLt(nextTickTime, stopAt)]_vars
    /\ [][stopAt # None => RLe(now', stopAt)]_vars
    /\ [][lastOp'[1] = "scheduledStop"
            => /\ now' = stopAt
               /\ clockState' = "stopped"
               /\ state' = "stopped"
               /\ stopAt' = None
               /\ spawned' = spawned
               /\ calls' = StopCalls(_activeSources, stopAt)]_vars

\* C12: the playback-rate multiplier a grain is created with is 2 ^ (detune /
\* 1200) for the detune of its tick: 1 for 0 cents, 2 for 1200, 1/2 for -1200,
\* whatever the playbackRate and the grainSize of the player are.
C12_MultiplierFromDetune ==
    [][spawned' = spawned + 1
         => LET grain == _activeSources'[Len(_activeSources')]
            IN  /\ detune = 0 => grain.playbackRate = Rat(1, 1)
                /\ detune = 1200 => grain.playbackRate = Rat(2, 1)
                /\ detune = 0 - 1200 => grain.playbackRate = Rat(1, 2)
                /\ detune \in {0 - 1200, 0, 1200}]_vars

\* C12 witness: a grain was spawned with detune 1200 and a playbackRate other
\* than 1, and its multiplier is 2
C12_Witness ==
    /\ lastOp[1] = "tick"
    /\ detune = 1200
    /\ _playbackRate = Rat(1, 1000)
    /\ _activeSources # <<>>
    /\ _activeSources[Len(_activeSources)].id = spawned
    /\ _activeSources[Len(_activeSources)].playbackRate = Rat(2, 1)

(***************************************************************************)
(* SpecDispose: a player that is started, stopped and disposed, its clock  *)
(* and its grains; a disposed player is not started or stopped again.      *)
(***************************************************************************)
InitDispose == Constructed(Rat(1, 5), Rat(1, 5), Unlimited)

Alive == <<"player">> \notin disposed

NextDispose ==
    \/ \E offset \in OffsetInputs : Alive /\ Start(offset, None)
    \/ Alive /\ Stop
    \/ Tick
    \/ \E id \in 1..MaxSpawn : GrainEnded(id)
    \/ Dispose

SpecDispose == InitDispose /\ [][NextDispose]_vars

\* the calls dispose makes with list the grains in _activeSources
DisposeCalls(list) ==
    << <<"super.dispose">>, <<"buffer.dispose">>, <<"clock.dispose">> >>
        \o [i \in 1..Len(list) |-> <<"source.dispose", list[i].id>>]

Without(list, id) == SelectSeq(list, LAMBDA x : x # id)

\* C14: the grains in the list have ids among those spawned, in increasing
\* (spawn) order, so none twice; a grain enters the list, at its end, in the
\* tick that spawns it and in no other step; the completion notification of a
\* grain removes that grain and no other; every other step (stop, restart,
\* the scheduled stop, the end-of-buffer tick, setting loop) leaves the grains
\* in the list and their order as they were.
C14_ActiveSetExact ==
    /\ [](\A i \in 1..Len(_activeSources) :
             /\ _activeSources[i].id \in 1..spawned
             /\ \A j \in 1..Len(_activeSources) :
                   i < j => _activeSources[i].id < _activeSources[j].id)
    /\ [][IF spawned' # spawned
          THEN /\ lastOp'[1] = "tick"
               /\ spawned' = spawned + 1
               /\ Ids(_activeSources') = Append(Ids(_activeSources), spawned + 1)
          ELSE IF lastOp'[1] = "onended"
          THEN Ids(_activeSources') = Without(Ids(_activeSources), lastOp'[2])
          ELSE Ids(_activeSources') = Ids(_activeSources)]_vars

\* C14 witness: after a stop the younger of two grains has ended first and
\* the older is still in the list
C14_Witness ==
    /\ lastOp = <<"onended", 2>>
    /\ spawned = 2
    /\ Ids(_activeSources) = <<1>>
    /\ state = "stopped"

\* C15: the completion notification of a grain that is not in the list (it
\* fired before) leaves the list as it was, and the player and the clock with
\* it; that of a grain in the list removes this grain and leaves the others
\* as they were, in their order, wherever in the list the grain is.
C15_CompletionIdempotent ==
    [][lastOp'[1] = "onended"
         => LET id == lastOp'[2]
            IN  /\ IF indexOf(_activeSources, id) = -1
                   THEN _activeSources' = _activeSources /\ calls' = <<>>
                   ELSE _activeSources' =
                            SelectSeq(_activeSources, LAMBDA g : g.id # id)
                /\ UNCHANGED <<state, spawned, clockState, clockTicks, frequency,
                               nextTickTime, stopAt>>]_vars

\* C15 witness: the completion of grain 1 has fired again, after it had
\* removed grain 1, and grain 2 is still in the list
C15_Witness ==
    /\ lastOp = <<"onended", 1>>
    /\ calls = <<>>
    /\ spawned = 2
    /\ Ids(_activeSources) = <<2>>

\* C16 as stated: the buffer offset a spawned grain starts reading from is
\* tick index x (1 / tick frequency), the offset that the end-of-buffer test
\* and the fade-in decision of its tick use.
C16_OneOffsetPerTick ==
    [][spawned' = spawned + 1
         => LET grain == _activeSources'[Len(_activeSources')]
            IN  /\ grain.spawn.ticks = clockTicks
                /\ grain.spawn.offset = TickOffset
                /\ grain.startOffset = TickOffset]_vars

\* C17: the grain spawned by the tick at time t with tick index k is started
\* at t, reads from buffer offset grainSize x k and is to stop at
\* t + grainSize / playbackRate, with the grainSize and the playbackRate of
\* that tick; its scheduled lifetime is the tick period 1 / frequency of that
\* tick, so it is to stop when the next tick is due.
C17_GrainWindow ==
    [][spawned' = spawned + 1
         => LET grain == _activeSources'[Len(_activeSources')]
                t == nextTickTime
                k == clockTicks
            IN  /\ now' = t
                /\ grain.startTime = t
                /\ grain.spawn.ticks = k
                /\ grain.startOffset = RMul(_grainSize, k)
                /\ grain.stopTime = RAdd(t, RDiv(_grainSize, _playbackRate))
                /\ grain.stopTime = RAdd(t, RDiv(One, frequency))
                /\ grain.stopTime = nextTickTime'
                /\ clockTicks' = RAdd(k, One)]_vars

\* C17 witness: the second grain of a player with playbackRate 2 and
\* grainSize 0.1: it reads from 0.1 and lasts 0.05
C17_Witness ==
    /\ lastOp[1] = "tick"
    /\ _playbackRate = Rat(2, 1)
    /\ _grainSize = Rat(1, 10)
    /\ Len(_activeSources) = 2
    /\ _activeSources[2].startOffset = Rat(1, 10)
    /\ _activeSources[2].stopTime = RAdd(_activeSources[2].startTime, Rat(1, 20))

\* C18 as stated: with loop disabled, the buffer offset a spawned grain starts
\* reading from is less than the buffer's duration.
C18_NoGrainAtOrPastEnd ==
    [][spawned' = spawned + 1 /\ ~loop
         => RLt(_activeSources'[Len(_activeSources')].startOffset,
                bufferDuration)]_vars

(***************************************************************************)
(* SpecOffset: a stopped player whose playbackRate and grainSize are set   *)
(* and which is then started from an offset, and its clock.                *)
(***************************************************************************)
InitOffset == Constructed(Rat(1, 5), Rat(1, 5), MaxSets)

StartStopped(offset) == state = "stopped" /\ Start(offset, None)

NextOffset ==
    \/ \E rate \in RateInputs : SetPlaybackRate(rate)
    \/ \E size \in SizeInputs : SetGrainSize(size)
    \/ \E offset \in OffsetInputs : StartStopped(offset)
    \/ Tick
    \/ \E id \in 1..MaxSpawn : GrainEnded(id)

SpecOffset == InitOffset /\ [][NextOffset]_vars

\* C19 as stated: the grain spawned by the first tick after
\* start(time, offset) from stopped starts at time and reads the buffer from
\* offset.
C19_FirstGrainAtOffset ==
    [][lastOp[1] = "start" /\ spawned' = spawned + 1
         => LET grain == _activeSources'[Len(_activeSources')]
            IN  /\ grain.startTime = now
                /\ grain.startOffset = lastOp[2]]_vars

(***************************************************************************)
(* SpecLive: the player started, with and without a duration, stopped,     *)
(* its clock and its grains, where the grains in the list of a stopped     *)
(* player deliver their completion notifications in the end.               *)
(***************************************************************************)
InitLive == Constructed(Rat(1, 5), Rat(1, 5), Unlimited)

\* the completion notification of a grain in the list of a stopped player
StoppedGrainEnded ==
    /\ state = "stopped"
    /\ \E id \in 1..MaxSpawn : indexOf(_activeSources, id) # -1 /\ GrainEnded(id)

NextLive ==
    \/ \E offset \in OffsetInputs, duration \in DurationInputs : Start(offset, duration)
    \/ Stop
    \/ Tick
    \/ ScheduledStop
    \/ \E id \in 1..MaxSpawn : GrainEnded(id)

SpecLive ==
    /\ InitLive
    /\ [][NextLive]_vars
    /\ WF_vars(StoppedGrainEnded)

\* C20: once the player is stopped (by stop, by the stop that start
\* scheduled or at the end of the buffer) the list becomes empty, unless the
\* player is started before; and while the player stays stopped the clock
\* stays halted, no grain is spawned and the list does not grow, so a list
\* that is empty stays empty until the next start.
C20_EmptiesAfterStop ==
    /\ (state = "stopped") ~> (_activeSources = <<>> \/ state = "started")
    /\ [][state = "stopped" /\ state' = "stopped"
            => /\ spawned' = spawned
               /\ Len(_activeSources') <= Len(_activeSources)
               /\ clockState' = "stopped"]_vars

\* C20 witness: the player is stopped, both grains have been spawned and the
\* completion of the last grain in the list has emptied it
C20_Witness ==
    /\ state = "stopped"
    /\ clockState = "stopped"
    /\ spawned = 2
    /\ lastOp[1] = "onended"
    /\ calls = << <<"splice", 0>> >>
    /\ _activeSources = <<>>

====
